---- MODULE Spec2Model ----
(***************************************************************************)
(* A model of sysmon: the event loop of main.go (one goroutine selecting   *)
(* over the shutdown-signal channel, the keyboard channel and the ticker   *)
(* channel), the App session state it owns, and the rate tracker of        *)
(* internal/network.go (GetNetworkSpeeds with its package-level store      *)
(* previousNetStats / lastNetworkRead).                                    *)
(*                                                                         *)
(* Time is counted in whole seconds.  A rate is kept as the byte delta and *)
(* the elapsed time it was computed from, so that comparisons of rates are *)
(* comparisons of integers.                                                *)
(***************************************************************************)
EXTENDS Integers, Sequences, FiniteSets, TLC

(***************************************************************************)
(* Program constants.                                                      *)
(***************************************************************************)
Second == 1
InitialRefresh == 3
MaxRefresh == 10

ViewOverview == 0
ViewProcesses == 1
ViewNetwork == 2
ViewDisks == 3
ViewSystem == 4
Views == {ViewOverview, ViewProcesses, ViewNetwork, ViewDisks, ViewSystem}

(***************************************************************************)
(* Bounds of the model.                                                    *)
(***************************************************************************)
\* the last second of the modelled clock
MaxClock == 2
\* the longest time, in seconds, between two readings of the clock
MaxStep == 2
\* width of the modelled cumulative byte counters (uint64 in the program)
CounterBits == 12
CounterMod == 2 ^ CounterBits
\* the longest process list getTopProcesses is called with
MaxProcs == 3
\* the number of characters ReadRune returns while the keyboard goroutine is
\* followed step by step
MaxKeys == 3

\* The characters the keyboard goroutine may read.  "x" stands for every
\* character outside the command set; NUL is the zero rune.
NUL == "NUL"
InputRunes ==
    {"q", "Q", "h", "?", "1", "2", "3", "4", "5", "p", "c", "l", "e", "r", "+", "-", "x"}

\* Interface names and cumulative counter values the provider may report.
Ifaces == {"eth0", "lo"}
ByteCounts == {0, 2048}
\* counter values reported while the event loop runs
LoopIfaces == {"eth0"}
LoopByteCounts == {1024}
\* counter values on either side of the 0.1 KB/s threshold: 102 and 103 bytes in
\* one second, 205 bytes in two
FineIfaces == {"eth0"}
FineByteCounts == {0, 102, 205}

VARIABLES
    app,              \* the App record of main.go
    ticker,           \* period, in seconds, of the ticker the loop selects on
    tickerC,          \* ticker.C, a channel of capacity 1: TRUE when a tick waits
    signalChan,       \* signalChan, capacity 1: TRUE when a signal waits
    inputChan,        \* inputChan: "reading" while handleKeyboardInput runs, or "closed"
    pc,               \* position of the main goroutine
    ev,               \* the event the main goroutine took last
    previousNetStats, \* package variable of internal/network.go
    lastNetworkRead,  \* package variable of internal/network.go
    rt,               \* the call of GetNetworkSpeeds the handler of ev made, if any
    out,              \* what the handler of ev did
    cleanups,         \* number of calls of App.cleanup
    closedTwice,      \* TRUE once Close was called on an already closed log file
    keyboard,         \* handleKeyboardInput: its local char, what ReadRune has
                      \* returned so far and what the loop has received so far
    top               \* a call of getTopProcesses: its arguments and its result

vars == <<app, ticker, tickerC, signalChan, inputChan, pc, ev, previousNetStats,
          lastNetworkRead, rt, out, cleanups, closedTwice, keyboard, top>>

\* the variables of the keyboard goroutine as it is followed step by step, and
\* of getTopProcesses called on its own
apart == <<keyboard, top>>

store == <<previousNetStats, lastNetworkRead>>

(***************************************************************************)
(* internal/network.go: the rate tracker.                                  *)
(***************************************************************************)
\* A map[string]NetworkInterface: nil, or the function from the names it holds to
\* their rows.
NilMap == [nil |-> TRUE, map |-> <<>>]

\* A NetworkInterface: the fields the rate tracker reads, and the time of the
\* poll that produced the row.
NetworkInterface(name, sent, recv, at) ==
    [Name |-> name, BytesSent |-> sent, BytesRecv |-> recv, LastUpdate |-> at]

Total(iface) == iface.BytesSent + iface.BytesRecv

RECURSIVE SeqsOver(_, _)
\* the sequences of length n over the set S
SeqsOver(S, n) ==
    IF n = 0 THEN {<<>>}
    ELSE {Append(s, x) : s \in SeqsOver(S, n - 1), x \in S}

\* GetNetworkStats at time now: one row per interface, sorted by total traffic,
\* the most active first (sort.Slice: rows of equal traffic come in any order).
SnapshotsOver(names, counts, now) ==
    LET rows == {NetworkInterface(n, s, r, now) :
                    n \in names, s \in counts, r \in counts}
        all  == UNION {SeqsOver(rows, k) : k \in 0..Cardinality(names)}
    IN  {s \in all :
           /\ \A i, j \in 1..Len(s) : i # j => s[i].Name # s[j].Name
           /\ \A i \in 1..(Len(s) - 1) : Total(s[i]) >= Total(s[i + 1])}

\* what the provider may return, at each time, to the rate tracker polled on
\* its own
Snapshots == [now \in 0..MaxClock |-> SnapshotsOver(Ifaces, ByteCounts, now)]
\* what the provider may return, at each time, while the event loop runs
LoopSnapshots ==
    [now \in 0..MaxClock |->
        {s \in SnapshotsOver(LoopIfaces, LoopByteCounts, now) : Len(s) > 0}]

\* what the provider may return, at each time, to the rate tracker polled with
\* counters that differ by little
FineSnapshots == [now \in 0..MaxClock |-> SnapshotsOver(FineIfaces, FineByteCounts, now)]

Names(cur) == {cur[i].Name : i \in 1..Len(cur)}

\* the row of the snapshot that the loop "previousNetStats[iface.Name] = iface"
\* leaves under the name n: the last one of that name
RowOf(cur, n) ==
    cur[CHOOSE i \in 1..Len(cur) :
            /\ cur[i].Name = n
            /\ \A j \in (i + 1)..Len(cur) : cur[j].Name # n]

\* StoreAll, were the store made anew from every snapshot
StoreAllFresh(prev, cur) ==
    [nil |-> FALSE, map |-> [n \in Names(cur) |-> RowOf(cur, n)]]

\* previousNetStats[iface.Name] = iface, for every row of the snapshot
StoreAll(prev, cur) ==
    [nil |-> FALSE,
     map |-> [n \in DOMAIN prev.map \cup Names(cur) |->
                 IF n \in Names(cur) THEN RowOf(cur, n) ELSE prev.map[n]]]

\* current - previous on unsigned counters
CounterDiff(current, previous) == (current - previous) % CounterMod

\* A NetworkSpeed: UploadKBps is SentDiff / TimeDiff / 1024 and DownloadKBps is
\* RecvDiff / TimeDiff / 1024.
NetworkSpeed(current, previous, timeDiff, now) ==
    [Interface |-> current.Name,
     SentDiff  |-> CounterDiff(current.BytesSent, previous.BytesSent),
     RecvDiff  |-> CounterDiff(current.BytesRecv, previous.BytesRecv),
     TimeDiff  |-> timeDiff,
     Timestamp |-> now]

\* diff / timeDiff / 1024 > 0.1
Significant(diff, timeDiff) == diff * 10 > 1024 * timeDiff

\* Included, were both directions required to exceed the threshold
IncludedBoth(speed) ==
    /\ Significant(speed.SentDiff, speed.TimeDiff)
    /\ Significant(speed.RecvDiff, speed.TimeDiff)

\* speed.UploadKBps > 0.1 || speed.DownloadKBps > 0.1
Included(speed) ==
    \/ Significant(speed.SentDiff, speed.TimeDiff)
    \/ Significant(speed.RecvDiff, speed.TimeDiff)

TotalSpeed(speed) == speed.SentDiff + speed.RecvDiff

RECURSIVE Computed(_, _, _, _, _)
\* the loop over currentStats.Interfaces, from row i on
Computed(prev, cur, timeDiff, now, i) ==
    IF i > Len(cur) THEN <<>>
    ELSE LET rest == Computed(prev, cur, timeDiff, now, i + 1)
         IN  IF cur[i].Name \in DOMAIN prev.map
             THEN LET speed == NetworkSpeed(cur[i], prev.map[cur[i].Name], timeDiff, now)
                  IN  IF Included(speed) THEN <<speed>> \o rest ELSE rest
             ELSE rest

\* the orders sort.Slice may leave the speeds in: highest total first, speeds of
\* equal total in any order
Sorted(speeds) ==
    {s \in SeqsOver({speeds[i] : i \in 1..Len(speeds)}, Len(speeds)) :
        /\ \A i \in 1..Len(speeds) :
              Cardinality({j \in 1..Len(s) : s[j] = speeds[i]})
                = Cardinality({j \in 1..Len(speeds) : speeds[j] = speeds[i]})
        /\ \A i \in 1..(Len(s) - 1) : TotalSpeed(s[i]) >= TotalSpeed(s[i + 1])}

\* A call of GetNetworkSpeeds: how it ended, the time and the snapshot it read,
\* the names the store held when it began, and the speeds it returned.
Call(kind, now, cur, known, speeds) ==
    [kind |-> kind, now |-> now, cur |-> cur, known |-> known, speeds |-> speeds]

NoCall == Call("none", 0, <<>>, {}, <<>>)

\* the names previousNetStats holds
Known == DOMAIN previousNetStats.map

\* SpeedsError, were a failed poll to drop the store
SpeedsErrorResets ==
    /\ previousNetStats' = NilMap
    /\ lastNetworkRead' = 0
    /\ rt' = Call("error", 0, <<>>, Known, <<>>)

\* GetNetworkStats failed: return nil, err
SpeedsError ==
    /\ UNCHANGED store
    /\ rt' = Call("error", 0, <<>>, Known, <<>>)

\* SpeedsFirst, were the first run to leave the new map empty
SpeedsFirstNoSeed(cur, now) ==
    /\ previousNetStats' = StoreAll(NilMap, <<>>)
    /\ lastNetworkRead' = now
    /\ rt' = Call("first", now, cur, Known, <<>>)

\* previousNetStats == nil: the first run
SpeedsFirst(cur, now) ==
    /\ previousNetStats' = StoreAll(NilMap, cur)
    /\ lastNetworkRead' = now
    /\ rt' = Call("first", now, cur, Known, <<>>)

\* SpeedsNonPositive, were the store overwritten before the check of timeDiff
SpeedsNonPositiveStores(cur, now) ==
    /\ previousNetStats' = StoreAll(previousNetStats, cur)
    /\ lastNetworkRead' = now
    /\ rt' = Call("nonpositive", now, cur, Known, <<>>)

\* timeDiff <= 0
SpeedsNonPositive(cur, now) ==
    /\ UNCHANGED store
    /\ rt' = Call("nonpositive", now, cur, Known, <<>>)

\* SpeedsComputed, were only the interfaces with significant traffic stored
SpeedsComputedKeepsIdle(cur, now, timeDiff) ==
    LET speeds == Computed(previousNetStats, cur, timeDiff, now, 1)
        active == {speeds[i].Interface : i \in 1..Len(speeds)}
    IN  /\ previousNetStats' =
              StoreAll(previousNetStats, SelectSeq(cur, LAMBDA row : row.Name \in active))
        /\ lastNetworkRead' = now
        /\ \E s \in Sorted(speeds) : rt' = Call("computed", now, cur, Known, s)

\* the speeds of the interfaces known before, the store overwritten, the sort
SpeedsComputed(cur, now, timeDiff) ==
    /\ previousNetStats' = StoreAll(previousNetStats, cur)
    /\ lastNetworkRead' = now
    /\ \E s \in Sorted(Computed(previousNetStats, cur, timeDiff, now, 1)) :
          rt' = Call("computed", now, cur, Known, s)

\* GetNetworkSpeeds, the provider having returned the snapshot cur at time now
\* (ok = FALSE: GetNetworkStats failed)
GetNetworkSpeeds(ok, cur, now) ==
    IF ~ok THEN SpeedsError
    ELSE IF previousNetStats.nil THEN SpeedsFirst(cur, now)
    ELSE LET timeDiff == now - lastNetworkRead
         IN  IF timeDiff <= 0
             THEN SpeedsNonPositive(cur, now)
             ELSE SpeedsComputed(cur, now, timeDiff)

\* the readings of the clock a call may make: time.Now() is monotonic, so no
\* reading is earlier than one made before
Readings == {t \in lastNetworkRead..(lastNetworkRead + MaxStep) : t <= MaxClock}

\* a call of GetNetworkSpeeds, the provider answering with a snapshot of snaps
PollSpeeds(snaps) ==
    \/ GetNetworkSpeeds(FALSE, <<>>, lastNetworkRead)
    \/ \E now \in Readings : \E cur \in snaps[now] : GetNetworkSpeeds(TRUE, cur, now)

(***************************************************************************)
(* internal/processes.go: getTopProcesses.                                 *)
(***************************************************************************)
\* A ProcessInfo: the fields getTopProcesses reads, and the PID
ProcessInfo(pid, cpu, mem) == [PID |-> pid, CPUPercent |-> cpu, MemPercent |-> mem]

RECURSIVE ProcessListsOf(_)
\* the lists of k processes: one entry per PID, in the order of process.Pids,
\* which is ascending
ProcessListsOf(k) ==
    IF k = 0 THEN {<<>>}
    ELSE {Append(s, ProcessInfo(k, cpu, mem)) :
             s \in ProcessListsOf(k - 1), cpu \in {0, 50}, mem \in {0, 50}}

\* the process lists GetProcessStats may collect
ProcessLists == UNION {ProcessListsOf(k) : k \in 0..MaxProcs}

\* the field the less function of each case compares
Metric(process, sortBy) ==
    IF sortBy = "cpu" THEN process.CPUPercent ELSE process.MemPercent

\* the orders sort.Slice may leave the copy in: highest metric first, processes
\* of equal metric in any order ("The sort is not guaranteed to be stable")
SortedBy(processes, sortBy) ==
    {s \in SeqsOver({processes[i] : i \in 1..Len(processes)}, Len(processes)) :
        /\ {s[i] : i \in 1..Len(s)} = {processes[i] : i \in 1..Len(processes)}
        /\ \A i \in 1..(Len(s) - 1) : Metric(s[i], sortBy) >= Metric(s[i + 1], sortBy)}

\* sorted[:limit], or sorted when it is shorter
TopOf(sorted, limit) ==
    IF Len(sorted) < limit THEN sorted ELSE SubSeq(sorted, 1, limit)

\* getTopProcesses, were the list cut to limit before it is sorted
getTopProcessesCutsFirst(processes, sortBy, limit) ==
    SortedBy(TopOf(processes, limit), sortBy)

\* getTopProcesses(processes, sortBy, limit): the results it may return
getTopProcesses(processes, sortBy, limit) ==
    {TopOf(sorted, limit) : sorted \in SortedBy(processes, sortBy)}

(***************************************************************************)
(* main.go: the session state and its handlers.                            *)
(***************************************************************************)
\* app.logFile: nil, a file that is open, or a file that was closed
NoFile == "nil"
OpenFile == "open"
ClosedFile == "closed"

\* what a handler did: calls of displayInterface, what the last of them drew,
\* the provider calls made, whether logStats wrote an entry, how exportStats
\* ended, and the exportData it encoded
Quiet ==
    [redraws |-> 0, shown |-> "none", polls |-> {}, logged |-> FALSE,
     export |-> "none", exported |-> <<>>]

Drawn(shown, polls, logged) ==
    [redraws |-> 1, shown |-> shown, polls |-> polls, logged |-> logged,
     export |-> "none", exported |-> <<>>]

\* displayOverviewView, were the Overview to show the rates of GetNetworkSpeeds
displayOverviewViewPollsSpeeds(a) ==
    \E sysOk \in BOOLEAN :
        IF sysOk
        THEN /\ PollSpeeds(LoopSnapshots)
             /\ out' = Drawn("view", {"system", "process", "network", "speeds"},
                             a.logToFile /\ a.logFile # NoFile)
        ELSE /\ UNCHANGED store
             /\ rt' = NoCall
             /\ out' = Drawn("error", {"system"}, FALSE)

\* displayOverviewView
displayOverviewView(a) ==
    /\ UNCHANGED store
    /\ rt' = NoCall
    /\ \E sysOk \in BOOLEAN :
          out' = IF sysOk
                 THEN Drawn("view", {"system", "process", "network"},
                            a.logToFile /\ a.logFile # NoFile)
                 ELSE Drawn("error", {"system"}, FALSE)

\* displayProcessesView
displayProcessesView(a) ==
    /\ UNCHANGED store
    /\ rt' = NoCall
    /\ \E procOk \in BOOLEAN :
          out' = Drawn(IF procOk THEN "view" ELSE "error", {"process"}, FALSE)

\* displayNetworkView
displayNetworkView(a) ==
    \E netOk \in BOOLEAN :
        IF ~netOk
        THEN /\ UNCHANGED store
             /\ rt' = NoCall
             /\ out' = Drawn("error", {"network"}, FALSE)
        ELSE /\ PollSpeeds(LoopSnapshots)
             /\ out' = Drawn("view", {"network", "speeds"}, FALSE)

\* displayDisksView and displaySystemView
displaySystemView(a) ==
    /\ UNCHANGED store
    /\ rt' = NoCall
    /\ \E sysOk \in BOOLEAN :
          out' = Drawn(IF sysOk THEN "view" ELSE "error", {"system"}, FALSE)

\* displayInterface, on the session state a
displayInterface(a) ==
    IF a.showHelp
    THEN /\ UNCHANGED store
         /\ rt' = NoCall
         /\ out' = Drawn("help", {}, FALSE)
    ELSE CASE a.currentView = ViewOverview  -> displayOverviewView(a)
           [] a.currentView = ViewProcesses -> displayProcessesView(a)
           [] a.currentView = ViewNetwork   -> displayNetworkView(a)
           [] a.currentView = ViewDisks     -> displaySystemView(a)
           [] a.currentView = ViewSystem    -> displaySystemView(a)

\* a handler that draws nothing and polls nothing
NoDisplay ==
    /\ UNCHANGED store
    /\ rt' = NoCall
    /\ out' = Quiet

\* (*os.File).Close on app.logFile
Close(a) == closedTwice' = (closedTwice \/ a.logFile = ClosedFile)

\* toggleLogging, were the return after a failed OpenFile missing
toggleLoggingNoReturn ==
    /\ UNCHANGED <<ticker, cleanups>>
    /\ IF app.logToFile
       THEN /\ IF app.logFile # NoFile THEN Close(app) ELSE UNCHANGED closedTwice
            /\ app' = [app EXCEPT !.logFile = NoFile, !.logToFile = FALSE]
            /\ displayInterface(app')
       ELSE /\ UNCHANGED closedTwice
            /\ \E opened \in BOOLEAN :
                  /\ app' = [app EXCEPT !.logFile = IF opened THEN OpenFile ELSE NoFile,
                                        !.logToFile = TRUE]
                  /\ displayInterface(app')

\* toggleLogging, were logFile kept after its Close
toggleLoggingKeepsHandle ==
    /\ UNCHANGED <<ticker, cleanups>>
    /\ IF app.logToFile
       THEN /\ IF app.logFile # NoFile THEN Close(app) ELSE UNCHANGED closedTwice
            /\ app' = [app EXCEPT !.logFile = ClosedFile, !.logToFile = FALSE]
            /\ displayInterface(app')
       ELSE /\ UNCHANGED closedTwice
            /\ \E opened \in BOOLEAN :
                  IF opened
                  THEN /\ app' = [app EXCEPT !.logFile = OpenFile, !.logToFile = TRUE]
                       /\ displayInterface(app')
                  ELSE /\ UNCHANGED app
                       /\ NoDisplay

\* toggleLogging
toggleLogging ==
    /\ UNCHANGED <<ticker, cleanups>>
    /\ IF app.logToFile
       THEN /\ IF app.logFile # NoFile THEN Close(app) ELSE UNCHANGED closedTwice
            /\ app' = [app EXCEPT !.logFile = NoFile, !.logToFile = FALSE]
            /\ displayInterface(app')
       ELSE /\ UNCHANGED closedTwice
            /\ \E opened \in BOOLEAN :
                  IF opened
                  THEN /\ app' = [app EXCEPT !.logFile = OpenFile, !.logToFile = TRUE]
                       /\ displayInterface(app')
                  ELSE /\ UNCHANGED app
                       /\ NoDisplay

\* time.Duration.String, of a whole number of seconds below a minute
DurationString(d) == ToString(d \div Second) \o "s"

\* exportData: the fields taken from the session state ("view" is encoded as
\* the number of the ViewType)
ExportData(a) ==
    [view |-> a.currentView, refresh_rate |-> DurationString(a.refreshRate)]

\* exportStats, were the export to fall back to the Overview view
exportStatsOfOverview ==
    /\ app' = [app EXCEPT !.currentView = ViewOverview]
    /\ UNCHANGED <<ticker, cleanups, closedTwice, store>>
    /\ rt' = NoCall
    /\ \E sysOk \in BOOLEAN, written \in BOOLEAN :
          out' = IF ~sysOk
                 THEN [Quiet EXCEPT !.polls = {"system"}, !.export = "failed"]
                 ELSE [Quiet EXCEPT !.polls = {"system", "process", "network"},
                                    !.export = IF written THEN "written" ELSE "failed",
                                    !.exported = IF written THEN <<ExportData(app')>>
                                                 ELSE <<>>]

\* exportStats: no file is written when GetSystemStats, os.Create or Encode fails
exportStats ==
    /\ UNCHANGED <<app, ticker, cleanups, closedTwice, store>>
    /\ rt' = NoCall
    /\ \E sysOk \in BOOLEAN, written \in BOOLEAN :
          out' = IF ~sysOk
                 THEN [Quiet EXCEPT !.polls = {"system"}, !.export = "failed"]
                 ELSE [Quiet EXCEPT !.polls = {"system", "process", "network"},
                                    !.export = IF written THEN "written" ELSE "failed",
                                    !.exported = IF written THEN <<ExportData(app)>>
                                                 ELSE <<>>]

\* case '+': the new ticker is local to handleKeyPress and stopped on return
FasterRate(rate) == IF rate > Second THEN rate - Second ELSE rate

\* case '-', were the interval to grow by two seconds
SlowerRateByTwo(rate) == IF rate < MaxRefresh * Second THEN rate + 2 * Second ELSE rate

\* case '-', were the upper limit not tested
SlowerRateUnclamped(rate) == rate + Second

\* case '-'
SlowerRate(rate) == IF rate < MaxRefresh * Second THEN rate + Second ELSE rate

\* the ticker the loop selects on, after handleKeyPress has changed the refresh
\* rate: handleKeyPress has no access to it
TickerAfterRateChange(period, rate) == period

\* Exits, were the zero rune of a closed inputChan taken as a request to quit
ExitsAtEndOfInput(key) == key \in {"q", "Q", NUL}

\* handleKeyPress returns true
Exits(key) == key \in {"q", "Q"}

\* CaseHelp, were the key to show the help and never to hide it
CaseHelpShowsOnly ==
    /\ app' = [app EXCEPT !.showHelp = TRUE]
    /\ displayInterface(app')
    /\ UNCHANGED <<ticker, cleanups, closedTwice>>

\* case 'h', 'H', '?'
CaseHelp ==
    /\ app' = [app EXCEPT !.showHelp = ~app.showHelp]
    /\ displayInterface(app')
    /\ UNCHANGED <<ticker, cleanups, closedTwice>>

\* SelectedView, were '4' to select the System view
SelectedViewSkipsDisks(key) ==
    CASE key = "1" -> ViewOverview
      [] key = "2" -> ViewProcesses
      [] key = "3" -> ViewNetwork
      [] key = "4" -> ViewSystem
      [] key = "5" -> ViewSystem

\* the view each of '1' .. '5' assigns to app.currentView
SelectedView(key) ==
    CASE key = "1" -> ViewOverview
      [] key = "2" -> ViewProcesses
      [] key = "3" -> ViewNetwork
      [] key = "4" -> ViewDisks
      [] key = "5" -> ViewSystem

\* case '1' .. case '5'
CaseView(key) ==
    /\ app' = [app EXCEPT !.currentView = SelectedView(key)]
    /\ displayInterface(app')
    /\ UNCHANGED <<ticker, cleanups, closedTwice>>

\* TogglePause, were 'p' to pause and never to resume
TogglePauseOnly(a) == [a EXCEPT !.paused = TRUE]

\* app.paused = !app.paused
TogglePause(a) == [a EXCEPT !.paused = ~a.paused]

\* case 'p', 'P'
CasePause ==
    /\ app' = TogglePause(app)
    /\ displayInterface(app')
    /\ UNCHANGED <<ticker, cleanups, closedTwice>>

\* case 'c', 'C'
CaseCompact ==
    /\ app' = [app EXCEPT !.compactMode = ~app.compactMode]
    /\ displayInterface(app')
    /\ UNCHANGED <<ticker, cleanups, closedTwice>>

\* CaseRefresh, were the redraw skipped while paused as it is on a tick
CaseRefreshUnlessPaused ==
    /\ IF ~app.paused THEN displayInterface(app) ELSE NoDisplay
    /\ UNCHANGED <<app, ticker, cleanups, closedTwice>>

\* case 'r', 'R'
CaseRefresh ==
    /\ displayInterface(app)
    /\ UNCHANGED <<app, ticker, cleanups, closedTwice>>

\* case '+'
CaseFaster ==
    /\ app' = [app EXCEPT !.refreshRate = FasterRate(app.refreshRate)]
    /\ ticker' = TickerAfterRateChange(ticker, app'.refreshRate)
    /\ NoDisplay
    /\ UNCHANGED <<cleanups, closedTwice>>

\* case '-'
CaseSlower ==
    /\ app' = [app EXCEPT !.refreshRate = SlowerRate(app.refreshRate)]
    /\ ticker' = TickerAfterRateChange(ticker, app'.refreshRate)
    /\ NoDisplay
    /\ UNCHANGED <<cleanups, closedTwice>>

\* CaseOther, were an unknown key to redraw as 'r' does
CaseOtherRedraws ==
    /\ displayInterface(app)
    /\ UNCHANGED <<app, ticker, cleanups, closedTwice>>

\* no case of the switch matches
CaseOther ==
    /\ NoDisplay
    /\ UNCHANGED <<app, ticker, cleanups, closedTwice>>

\* handleKeyPress(key), for a key it returns false on
handleKeyPress(key) ==
    CASE key \in {"h", "H", "?"} -> CaseHelp
      [] key \in {"1", "2", "3", "4", "5"} -> CaseView(key)
      [] key \in {"p", "P"} -> CasePause
      [] key \in {"c", "C"} -> CaseCompact
      [] key \in {"l", "L"} -> toggleLogging
      [] key \in {"e", "E"} -> exportStats
      [] key \in {"r", "R"} -> CaseRefresh
      [] key = "+" -> CaseFaster
      [] key = "-" -> CaseSlower
      [] OTHER -> CaseOther

\* cleanup
cleanup ==
    /\ IF app.logFile # NoFile
       THEN /\ Close(app)
            /\ app' = [app EXCEPT !.logFile = ClosedFile]
       ELSE UNCHANGED <<app, closedTwice>>
    /\ cleanups' = cleanups + 1
    /\ UNCHANGED <<ticker, store>>
    /\ rt' = NoCall
    /\ out' = Quiet

(***************************************************************************)
(* main.go: the goroutines.                                                *)
(***************************************************************************)
Running == pc # "done"

\* the runtime's timer delivers a tick into ticker.C unless one is waiting there
TickerFire ==
    /\ Running
    /\ ~tickerC
    /\ tickerC' = TRUE
    /\ UNCHANGED <<app, ticker, signalChan, inputChan, pc, ev, store, rt, out,
                   cleanups, closedTwice>>
    /\ UNCHANGED apart

\* signal.Notify: the runtime delivers SIGINT or SIGTERM into signalChan unless
\* one is waiting there
SignalArrive ==
    /\ Running
    /\ ~signalChan
    /\ signalChan' = TRUE
    /\ UNCHANGED <<app, ticker, tickerC, inputChan, pc, ev, store, rt, out,
                   cleanups, closedTwice>>
    /\ UNCHANGED apart

\* ReadError, were the keyboard goroutine to write the session state
ReadErrorRequestsExit ==
    /\ Running
    /\ inputChan = "reading"
    /\ inputChan' = "closed"
    /\ app' = [app EXCEPT !.exitRequested = TRUE]
    /\ UNCHANGED <<ticker, tickerC, signalChan, pc, ev, store, rt, out,
                   cleanups, closedTwice>>
    /\ UNCHANGED apart

\* handleKeyboardInput: ReadRune fails, the goroutine closes inputChan and ends
ReadError ==
    /\ Running
    /\ inputChan = "reading"
    /\ inputChan' = "closed"
    /\ UNCHANGED <<app, ticker, tickerC, signalChan, pc, ev, store, rt, out,
                   cleanups, closedTwice>>
    /\ UNCHANGED apart

\* Taken, were an event taken while a handler runs
TakenWhileHandling(event) ==
    /\ pc' = "handle"
    /\ ev' = event
    /\ rt' = NoCall
    /\ out' = Quiet
    /\ UNCHANGED <<app, ticker, store, cleanups, closedTwice>>

\* the main goroutine takes an event, whose handler has done nothing yet
Taken(event) ==
    /\ pc = "select"
    /\ pc' = "handle"
    /\ ev' = event
    /\ rt' = NoCall
    /\ out' = Quiet
    /\ UNCHANGED <<app, ticker, store, cleanups, closedTwice>>

\* case <-signalChan
RecvSignal ==
    /\ signalChan
    /\ signalChan' = FALSE
    /\ Taken("signal")
    /\ UNCHANGED <<tickerC, inputChan>>
    /\ UNCHANGED apart

\* case key := <-inputChan, meeting "inputChan <- char" of handleKeyboardInput:
\* the channel has no buffer, so the character ReadRune returned is handed over
\* in one step, and the keyboard goroutine goes back to ReadRune
RecvKey ==
    /\ inputChan = "reading"
    /\ \E char \in InputRunes : Taken(char)
    /\ UNCHANGED <<tickerC, signalChan, inputChan>>
    /\ UNCHANGED apart

\* case key := <-inputChan, the channel closed: the zero rune
RecvClosed ==
    /\ inputChan = "closed"
    /\ Taken(NUL)
    /\ UNCHANGED <<tickerC, signalChan, inputChan>>
    /\ UNCHANGED apart

\* case <-ticker.C
RecvTick ==
    /\ tickerC
    /\ tickerC' = FALSE
    /\ Taken("tick")
    /\ UNCHANGED <<signalChan, inputChan>>
    /\ UNCHANGED apart

\* HandleSignal, were the case to leave the select and not the loop
HandleSignalBreaksSelect ==
    /\ pc = "handle"
    /\ ev = "signal"
    /\ pc' = "select"
    /\ NoDisplay
    /\ UNCHANGED <<app, ticker, cleanups, closedTwice>>
    /\ UNCHANGED <<tickerC, signalChan, inputChan, ev>>
    /\ UNCHANGED apart

\* app.cleanup(); return
HandleSignal ==
    /\ pc = "handle"
    /\ ev = "signal"
    /\ cleanup
    /\ pc' = "done"
    /\ UNCHANGED <<tickerC, signalChan, inputChan, ev>>
    /\ UNCHANGED apart

\* if app.handleKeyPress(key) { app.cleanup(); return }
HandleKey ==
    /\ pc = "handle"
    /\ ev \notin {"signal", "tick"}
    /\ IF Exits(ev)
       THEN cleanup /\ pc' = "done"
       ELSE handleKeyPress(ev) /\ pc' = "select"
    /\ UNCHANGED <<tickerC, signalChan, inputChan, ev>>
    /\ UNCHANGED apart

\* HandleTick, were the paused flag not tested
HandleTickIgnoresPause ==
    /\ pc = "handle"
    /\ ev = "tick"
    /\ IF ~app.showHelp THEN displayInterface(app) ELSE NoDisplay
    /\ pc' = "select"
    /\ UNCHANGED <<app, ticker, cleanups, closedTwice>>
    /\ UNCHANGED <<tickerC, signalChan, inputChan, ev>>
    /\ UNCHANGED apart

\* if !app.paused && !app.showHelp { app.displayInterface() }
HandleTick ==
    /\ pc = "handle"
    /\ ev = "tick"
    /\ IF ~app.paused /\ ~app.showHelp THEN displayInterface(app) ELSE NoDisplay
    /\ pc' = "select"
    /\ UNCHANGED <<app, ticker, cleanups, closedTwice>>
    /\ UNCHANGED <<tickerC, signalChan, inputChan, ev>>
    /\ UNCHANGED apart

\* main, up to the loop: the App, the channels, the first display, the ticker
Started ==
    /\ app = [currentView |-> ViewOverview, refreshRate |-> InitialRefresh * Second,
              paused |-> FALSE, logToFile |-> FALSE, logFile |-> NoFile,
              showHelp |-> FALSE, compactMode |-> FALSE, colorEnabled |-> TRUE,
              exitRequested |-> FALSE]
    /\ ticker = app.refreshRate
    /\ tickerC = FALSE
    /\ signalChan = FALSE
    /\ inputChan = "reading"
    /\ pc = "select"
    /\ ev = "none"
    /\ previousNetStats = NilMap
    /\ lastNetworkRead = 0
    /\ rt = NoCall
    /\ \E sysOk \in BOOLEAN :
          out = IF sysOk
                THEN Drawn("view", {"system", "process", "network"}, FALSE)
                ELSE Drawn("error", {"system"}, FALSE)
    /\ cleanups = 0
    /\ closedTwice = FALSE
    /\ keyboard = [char |-> NUL, read |-> <<>>, received |-> <<>>]

\* getTopProcesses called with the arguments given, not yet returned
TopCall(processes, sortBy, limit) ==
    [processes |-> processes, sortBy |-> sortBy, limit |-> limit,
     result |-> <<>>, returned |-> FALSE]

Init ==
    /\ Started
    /\ top = TopCall(<<>>, "cpu", 0)

Next ==
    \/ TickerFire
    \/ SignalArrive
    \/ ReadError
    \/ RecvSignal
    \/ RecvKey
    \/ RecvClosed
    \/ RecvTick
    \/ HandleSignal
    \/ HandleKey
    \/ HandleTick

Spec == Init /\ [][Next]_vars

(***************************************************************************)
(* The rate tracker on its own: GetNetworkSpeeds called again and again,   *)
(* as the Network view does on every redraw, with every snapshot the       *)
(* provider may return.                                                    *)
(***************************************************************************)
RateStep ==
    /\ PollSpeeds(Snapshots)
    /\ UNCHANGED <<app, ticker, tickerC, signalChan, inputChan, pc, ev, out,
                   cleanups, closedTwice>>
    /\ UNCHANGED apart

SpecRates == Init /\ [][RateStep]_vars

\* the same, one interface with counters around the threshold of inclusion
FineStep ==
    /\ PollSpeeds(FineSnapshots)
    /\ UNCHANGED <<app, ticker, tickerC, signalChan, inputChan, pc, ev, out,
                   cleanups, closedTwice>>
    /\ UNCHANGED apart

SpecFine == Init /\ [][FineStep]_vars

(***************************************************************************)
(* The session driven from the keyboard alone: every character of the      *)
(* command set in both cases, a character outside it, and the end of the   *)
(* input.                                                                  *)
(***************************************************************************)
KeyRunes == InputRunes \cup {"H", "P", "C", "L", "E", "R"}

\* case key := <-inputChan, for every character the keyboard may send
RecvAnyKey ==
    /\ inputChan = "reading"
    /\ \E char \in KeyRunes : Taken(char)
    /\ UNCHANGED <<tickerC, signalChan, inputChan>>
    /\ UNCHANGED apart

KeyStep ==
    \/ ReadError
    \/ RecvAnyKey
    \/ RecvClosed
    \/ HandleKey

SpecKeys == Init /\ [][KeyStep]_vars

(***************************************************************************)
(* The loop under Go's scheduling.  A goroutine that can run does run, so   *)
(* a handler begun is completed.  select chooses among the cases that can  *)
(* proceed by uniform pseudo-random selection, so a case that can proceed  *)
(* every time the loop selects is chosen in the end.                       *)
(***************************************************************************)
LiveRunes == {"x", "p", "3"}

\* case key := <-inputChan, for the characters of LiveRunes
RecvLiveKey ==
    /\ inputChan = "reading"
    /\ \E char \in LiveRunes : Taken(char)
    /\ UNCHANGED <<tickerC, signalChan, inputChan>>
    /\ UNCHANGED apart

LiveStep ==
    \/ TickerFire
    \/ SignalArrive
    \/ ReadError
    \/ RecvSignal
    \/ RecvLiveKey
    \/ RecvClosed
    \/ RecvTick
    \/ HandleSignal
    \/ HandleKey
    \/ HandleTick

SpecLive ==
    /\ Init
    /\ [][LiveStep]_vars
    /\ WF_vars(HandleSignal)
    /\ WF_vars(HandleKey)
    /\ WF_vars(HandleTick)
    /\ SF_vars(RecvSignal)

(***************************************************************************)
(* The keyboard goroutine followed step by step: ReadRune returns a         *)
(* character into the local char, and the send on the unbuffered inputChan *)
(* blocks until the main goroutine receives in its select.  The ticker     *)
(* runs meanwhile.                                                         *)
(***************************************************************************)
StreamRunes == {"p", "x", "q"}

\* char, _, err := reader.ReadRune(), err == nil
ReadRune ==
    /\ Running
    /\ inputChan = "reading"
    /\ Len(keyboard.read) < MaxKeys
    /\ \E char \in StreamRunes :
          keyboard' = [keyboard EXCEPT !.char = char, !.read = Append(@, char)]
    /\ inputChan' = "sending"
    /\ UNCHANGED <<app, ticker, tickerC, signalChan, pc, ev, store, rt, out,
                   cleanups, closedTwice, top>>

\* SendKey, were the character dropped when the loop is not in its select
SendKeyUnlessBusy ==
    /\ Running
    /\ inputChan = "sending"
    /\ inputChan' = "reading"
    /\ IF pc = "select"
       THEN /\ Taken(keyboard.char)
            /\ keyboard' = [keyboard EXCEPT !.received = Append(@, keyboard.char)]
       ELSE UNCHANGED <<app, ticker, pc, ev, store, rt, out, cleanups, closedTwice,
                        keyboard>>
    /\ UNCHANGED <<tickerC, signalChan, top>>

\* inputChan <- char, meeting case key := <-inputChan
SendKey ==
    /\ inputChan = "sending"
    /\ Taken(keyboard.char)
    /\ inputChan' = "reading"
    /\ keyboard' = [keyboard EXCEPT !.received = Append(@, keyboard.char)]
    /\ UNCHANGED <<tickerC, signalChan, top>>

InputStep ==
    \/ ReadRune
    \/ SendKey
    \/ ReadError
    \/ RecvClosed
    \/ TickerFire
    \/ RecvTick
    \/ HandleKey
    \/ HandleTick

SpecInput == Init /\ [][InputStep]_vars

(***************************************************************************)
(* getTopProcesses on its own: called as GetProcessStats calls it, with     *)
(* every process list and either criterion, and with limits from 0 to      *)
(* beyond the length of the list.                                          *)
(***************************************************************************)
InitTop ==
    /\ Started
    /\ \E processes \in ProcessLists, sortBy \in {"cpu", "memory"},
          limit \in 0..(MaxProcs + 1) :
          top = TopCall(processes, sortBy, limit)

ReturnTop ==
    /\ ~top.returned
    /\ \E result \in getTopProcesses(top.processes, top.sortBy, top.limit) :
          top' = [top EXCEPT !.result = result, !.returned = TRUE]
    /\ UNCHANGED <<app, ticker, tickerC, signalChan, inputChan, pc, ev, store, rt,
                   out, cleanups, closedTwice, keyboard>>

SpecTop == InitTop /\ [][ReturnTop]_vars

(***************************************************************************)
(* Properties.                                                             *)
(***************************************************************************)
\* the main goroutine completes the handler of the event it holds
Handled == pc = "handle" /\ pc' # "handle"

\* C1: the period of the ticker that delivers ticks to the loop equals the
\* refresh interval, also after '+' or '-' has changed the interval.
C1_TickerFollowsRefreshRate == ticker = app.refreshRate

\* C2: the refresh interval is within [1s, 10s] in every reachable state.
C2_RefreshWithinBounds ==
    app.refreshRate \in (1 * Second)..(MaxRefresh * Second)

\* a '-' has been handled and the interval is at its upper bound
C2_AtUpperBound ==
    /\ pc = "select"
    /\ ev = "-"
    /\ app.refreshRate = MaxRefresh * Second

\* C3: the handler of a tick taken while paused draws nothing, polls nothing,
\* leaves the session state and the store unchanged, and the loop goes on.
C3_PausedTickIsNoOp ==
    [][(Handled /\ ev = "tick" /\ app.paused) =>
          /\ out'.redraws = 0
          /\ out'.polls = {}
          /\ rt'.kind = "none"
          /\ UNCHANGED <<app, store>>
          /\ pc' = "select"]_vars

\* a tick has been handled while paused with help hidden, in the Network view
C3_PausedTickHandled ==
    /\ pc = "select"
    /\ ev = "tick"
    /\ app.paused
    /\ ~app.showHelp
    /\ app.currentView = ViewNetwork
    /\ ~previousNetStats.nil

\* C4: a signal or a 'q' ends the loop after one cleanup, which closes the log
\* file exactly when one is open; no other event ends it or cleans up; nothing
\* happens after the loop has ended; no log file is closed twice.
C4_CleanupOnceThenStop ==
    [][/\ pc # "done"
       /\ ~closedTwice'
       /\ Handled =>
             IF ev \in {"signal", "q", "Q"}
             THEN /\ pc' = "done"
                  /\ cleanups = 0
                  /\ cleanups' = 1
                  /\ app'.logFile = IF app.logFile = NoFile THEN NoFile ELSE ClosedFile
             ELSE /\ pc' = "select"
                  /\ cleanups' = 0]_vars

\* the loop has ended on a signal, and cleanup closed the open log file
C4_EndedWithLogClosed ==
    /\ pc = "done"
    /\ ev = "signal"
    /\ cleanups = 1
    /\ app.logToFile
    /\ app.logFile = ClosedFile

\* a call of GetNetworkSpeeds in which the provider answered
Computes == rt'.kind \notin {"none", "error"}

\* C5: a rate computation with elapsed time <= 0 returns no speeds and leaves
\* the stored baseline and the last-read time unchanged.
C5_NonPositiveElapsedKeepsStore ==
    [][(Computes /\ ~previousNetStats.nil /\ rt'.now - lastNetworkRead <= 0) =>
          /\ rt'.speeds = <<>>
          /\ UNCHANGED store]_vars

\* a computation with no elapsed time saw counters that differ from the baseline
\* the store still holds
C5_BaselineKept ==
    /\ rt.kind = "nonpositive"
    /\ rt.now = lastNetworkRead
    /\ \E i \in 1..Len(rt.cur) :
          /\ rt.cur[i].Name \in Known
          /\ previousNetStats.map[rt.cur[i].Name].BytesSent # rt.cur[i].BytesSent

\* C6: the first rate computation returns no speeds, stores every row of the
\* current snapshot as baseline and records the call time as last-read time.
C6_FirstCallSeedsStore ==
    [][(Computes /\ previousNetStats.nil) =>
          /\ rt'.speeds = <<>>
          /\ ~previousNetStats'.nil
          /\ DOMAIN previousNetStats'.map = Names(rt'.cur)
          /\ \A i \in 1..Len(rt'.cur) :
                previousNetStats'.map[rt'.cur[i].Name] = rt'.cur[i]
          /\ lastNetworkRead' = rt'.now]_vars

\* the first computation has stored a snapshot of two interfaces with traffic
C6_FirstCallDone ==
    /\ rt.kind = "first"
    /\ Len(rt.cur) = 2
    /\ \A i \in 1..Len(rt.cur) : rt.cur[i].BytesSent > 0
    /\ DOMAIN previousNetStats.map = Names(rt.cur)
    /\ lastNetworkRead = rt.now

\* C7: after a rate computation that is neither the first nor one with elapsed
\* time <= 0, the store holds the current row of every interface of the
\* snapshot, also of those whose speed was left out of the result, and the
\* last-read time is the call time.
C7_StoreOverwritten ==
    [][(Computes /\ ~previousNetStats.nil /\ rt'.now - lastNetworkRead > 0) =>
          /\ Names(rt'.cur) \subseteq DOMAIN previousNetStats'.map
          /\ \A i \in 1..Len(rt'.cur) :
                rt'.cur[i].Name \in DOMAIN previousNetStats'.map =>
                    previousNetStats'.map[rt'.cur[i].Name] = rt'.cur[i]
          /\ lastNetworkRead' = rt'.now]_vars

\* a computation left out the speed of an interface the store knew, and
\* returned the speed of another
C7_IdleInterfaceStored ==
    /\ rt.kind = "computed"
    /\ Len(rt.speeds) = 1
    /\ \E i \in 1..Len(rt.cur) :
          /\ rt.cur[i].Name \in rt.known
          /\ rt.cur[i].Name # rt.speeds[1].Interface
          /\ previousNetStats.map[rt.cur[i].Name] = rt.cur[i]

\* C8: the store only moves forward: the last-read time never decreases, the
\* store never becomes nil again, and an entry is never replaced by a row of an
\* earlier poll.
C8_StoreOnlyForward ==
    [][/\ lastNetworkRead' >= lastNetworkRead
       /\ ~previousNetStats.nil => ~previousNetStats'.nil
       /\ \A n \in DOMAIN previousNetStats.map \cap DOMAIN previousNetStats'.map :
             previousNetStats'.map[n].LastUpdate >= previousNetStats.map[n].LastUpdate]_vars

\* one entry has been replaced by the row of a later poll, which another
\* interface was missing from
C8_EntryReplaced ==
    /\ rt.kind = "computed"
    /\ \E n, m \in Known :
          /\ n \in rt.known
          /\ previousNetStats.map[n].LastUpdate = lastNetworkRead
          /\ previousNetStats.map[m].LastUpdate < lastNetworkRead

\* C9: the main goroutine takes an event only when no handler runs, and from
\* then on holds that event until its handler has completed: no other event is
\* taken and no state changes before.
C9_OneEventAtATime ==
    [][/\ ev' # ev => (pc = "select" /\ pc' = "handle")
       /\ pc = "handle" => ev' = ev
       /\ pc' = pc => UNCHANGED <<app, store, rt, out, cleanups>>
       /\ pc = "select" => UNCHANGED <<app, store, cleanups>>]_vars

\* a redraw of the Network view completed although a signal and a tick were
\* waiting
C9_PollCompleted ==
    /\ pc = "select"
    /\ ev = "tick"
    /\ out.redraws = 1
    /\ rt.kind = "computed"
    /\ signalChan
    /\ tickerC

\* C10: a step of the keyboard goroutine, of the signal delivery or of the
\* timer changes its own channel and nothing else; the session state and the
\* store change only in steps of the main goroutine.
C10_ProducersTouchOwnChannel ==
    [][pc' = pc =>
          /\ UNCHANGED <<app, ticker, store, rt, out, ev, cleanups, closedTwice>>
          /\ \/ UNCHANGED <<signalChan, inputChan>>
             \/ UNCHANGED <<tickerC, inputChan>>
             \/ UNCHANGED <<tickerC, signalChan>>]_vars

\* the keyboard goroutine has ended, a tick and a signal wait, and the main
\* goroutine has changed the session state and the store meanwhile
C10_ProducersActed ==
    /\ inputChan = "closed"
    /\ tickerC
    /\ signalChan
    /\ app.paused
    /\ ~previousNetStats.nil

\* the keys of SelectView
ViewKeys == {"1", "2", "3", "4", "5"}

\* C11: handling a key '1' .. '5' while help is visible hides the help.
C11_ViewKeyHidesHelp ==
    [][(Handled /\ ev \in ViewKeys /\ app.showHelp) => ~app'.showHelp]_vars

\* the view that the claim gives each key of SelectView
ViewOfKey ==
    ("1" :> ViewOverview) @@ ("2" :> ViewProcesses) @@ ("3" :> ViewNetwork)
        @@ ("4" :> ViewDisks) @@ ("5" :> ViewSystem)

\* C12: handling a key '1' .. '5' sets the current view to Overview, Processes,
\* Network, Disks, System respectively, whatever the paused and help flags are,
\* and leaves paused, compact, logging and the refresh interval unchanged.
C12_ViewKeySelectsView ==
    [][(Handled /\ ev \in ViewKeys) =>
          /\ app'.currentView = ViewOfKey[ev]
          /\ app'.paused = app.paused
          /\ app'.compactMode = app.compactMode
          /\ app'.logToFile = app.logToFile
          /\ app'.logFile = app.logFile
          /\ app'.refreshRate = app.refreshRate]_vars

\* '4' has been handled while paused with the help visible, and the Disks view
\* is selected
C12_DisksSelectedUnderHelp ==
    /\ pc = "select"
    /\ ev = "4"
    /\ app.paused
    /\ app.showHelp
    /\ app.currentView = ViewDisks

\* C13: handling 'q' or 'Q' sets exitRequested, and no other event changes it.
C13_QuitSetsExitRequested ==
    [][Handled =>
          IF ev \in {"q", "Q"}
          THEN app'.exitRequested
          ELSE app'.exitRequested = app.exitRequested]_vars

\* C14: handling '+' when the refresh interval is 10s leaves it at 10s.
C14_PlusAtTenSecondsStays ==
    [][(Handled /\ ev = "+" /\ app.refreshRate = MaxRefresh * Second) =>
          app'.refreshRate = MaxRefresh * Second]_vars

\* C15: '+' and '-' each change the refresh interval by exactly one second, '+'
\* down and '-' up, or leave it as it is when the change would leave [1s, 10s];
\* neither changes view, paused, help, compact or logging.
C15_RateKeysStepOneSecond ==
    [][(Handled /\ ev \in {"+", "-"}) =>
          LET step   == IF ev = "+" THEN 0 - Second ELSE Second
              wanted == app.refreshRate + step
          IN  /\ app'.refreshRate =
                    IF wanted \in (1 * Second)..(MaxRefresh * Second)
                    THEN wanted ELSE app.refreshRate
              /\ app' = [app EXCEPT !.refreshRate = app'.refreshRate]]_vars

\* a '+' has been handled with the interval at its lower bound, in a session
\* that is paused, compact and logging, in the System view
C15_AtLowerBound ==
    /\ pc = "select"
    /\ ev = "+"
    /\ app.refreshRate = 1 * Second
    /\ app.paused
    /\ app.compactMode
    /\ app.logToFile
    /\ app.currentView = ViewSystem

\* C16 as stated: handling 'l' or 'L' flips logging: off becomes on with the log
\* file open, on becomes off with the log file closed.
C16_ToggleLoggingFlips ==
    [][(Handled /\ ev \in {"l", "L"}) =>
          IF app.logToFile
          THEN ~app'.logToFile /\ app'.logFile = NoFile /\ ~closedTwice'
          ELSE app'.logToFile /\ app'.logFile = OpenFile]_vars

\* C16, amended: when logging was off, either the log file opens and logging
\* becomes on, or it cannot be opened and the session stays as it was, with no
\* redraw; when logging was on, the log file is closed, once, and logging
\* becomes off.
C16_ToggleLoggingFlipsIfOpened ==
    [][(Handled /\ ev \in {"l", "L"}) =>
          IF app.logToFile
          THEN /\ app' = [app EXCEPT !.logToFile = FALSE, !.logFile = NoFile]
               /\ app.logFile = OpenFile
               /\ ~closedTwice'
               /\ out'.redraws = 1
          ELSE \/ /\ app' = [app EXCEPT !.logToFile = TRUE, !.logFile = OpenFile]
                  /\ out'.redraws = 1
               \/ /\ app' = app
                  /\ app.logFile = NoFile
                  /\ out'.redraws = 0]_vars

\* an 'l' has been handled and logging is still off: the log file did not open
C16_OpenFailed ==
    /\ pc = "select"
    /\ ev = "l"
    /\ ~app.logToFile
    /\ app.logFile = NoFile
    /\ out.redraws = 0

\* C17: handling 'e' or 'E' leaves the session state unchanged whether or not a
\* file is written, and the data written carry the view and the refresh
\* interval the session has when the key is handled.
C17_ExportKeepsSession ==
    [][(Handled /\ ev \in {"e", "E"}) =>
          /\ app' = app
          /\ out'.export \in {"written", "failed"}
          /\ out'.export = "written" =>
                out'.exported = <<[view |-> app.currentView,
                                   refresh_rate |-> DurationString(app.refreshRate)]>>
          /\ out'.export = "failed" => out'.exported = <<>>]_vars

\* an 'E' has been handled in the System view at 10s and the file was written
C17_ExportedSystemView ==
    /\ pc = "select"
    /\ ev = "E"
    /\ out.export = "written"
    /\ out.exported = <<[view |-> ViewSystem, refresh_rate |-> "10s"]>>
    /\ app.currentView = ViewSystem

\* C18: handling 'r' or 'R' calls displayInterface exactly once and leaves the
\* session state unchanged, also while paused.
C18_RefreshRedrawsOnce ==
    [][(Handled /\ ev \in {"r", "R"}) =>
          /\ out'.redraws = 1
          /\ app' = app]_vars

\* an 'R' has been handled while paused, and the Processes view was drawn
C18_RedrawnWhilePaused ==
    /\ pc = "select"
    /\ ev = "R"
    /\ app.paused
    /\ ~app.showHelp
    /\ app.currentView = ViewProcesses
    /\ out.redraws = 1
    /\ out.polls = {"process"}

\* the command set
CommandRunes ==
    {"1", "2", "3", "4", "5", "h", "H", "?", "p", "P", "c", "C", "l", "L",
     "e", "E", "r", "R", "+", "-", "q", "Q"}

\* C19: a character outside the command set does nothing: the session state and
\* the store are unchanged, nothing is drawn, polled, exported or logged, no log
\* file is closed, and the loop goes on.
C19_UnknownKeyIsNoOp ==
    [][(Handled /\ ev \in (KeyRunes \cup {NUL}) \ CommandRunes) =>
          /\ UNCHANGED <<app, store, ticker, cleanups, closedTwice>>
          /\ out' = Quiet
          /\ rt' = NoCall
          /\ pc' = "select"]_vars

\* an 'x' has been handled in the Network view with a baseline in the store and
\* logging on
C19_UnknownKeyHandled ==
    /\ pc = "select"
    /\ ev = "x"
    /\ app.currentView = ViewNetwork
    /\ ~app.showHelp
    /\ app.logToFile
    /\ ~previousNetStats.nil

\* C20: handling 'p' or 'P' negates paused and changes no other field, so that
\* handling it once more gives the session state back.
C20_PauseTwiceRestores ==
    [][(Handled /\ ev \in {"p", "P"}) =>
          /\ app'.paused = ~app.paused
          /\ app' = [app EXCEPT !.paused = app'.paused]
          /\ TogglePause(app') = app]_vars

\* a 'P' has been handled and the session, in the Disks view with compact mode
\* on, is running again
C20_Resumed ==
    /\ pc = "select"
    /\ ev = "P"
    /\ ~app.paused
    /\ app.compactMode
    /\ app.currentView = ViewDisks

\* C21: handling 'h', 'H' or '?' negates help-visible and leaves paused and the
\* current view unchanged.
C21_HelpKeyFlipsHelp ==
    [][(Handled /\ ev \in {"h", "H", "?"}) =>
          /\ app'.showHelp = ~app.showHelp
          /\ app'.paused = app.paused
          /\ app'.currentView = app.currentView]_vars

\* a '?' has been handled and the help is hidden, in a paused session in the
\* Network view
C21_HelpHidden ==
    /\ pc = "select"
    /\ ev = "?"
    /\ ~app.showHelp
    /\ app.paused
    /\ app.currentView = ViewNetwork
    /\ out.shown = "view"

\* a call of GetNetworkSpeeds that went through the loop over the interfaces
ComputesSpeeds == rt'.kind = "computed"

\* C22: the upload and the download rate of every speed returned are the
\* difference of the current and the stored counter, over the time since the last
\* stored read (and over 1024), each direction by itself.
C22_RateIsCounterDifference ==
    [][ComputesSpeeds =>
          \A i \in 1..Len(rt'.speeds) :
              LET speed    == rt'.speeds[i]
                  current  == RowOf(rt'.cur, speed.Interface)
                  previous == previousNetStats.map[speed.Interface]
              IN  /\ speed.TimeDiff = rt'.now - lastNetworkRead
                  /\ speed.SentDiff = current.BytesSent - previous.BytesSent
                  /\ speed.RecvDiff = current.BytesRecv - previous.BytesRecv]_vars

\* C23: a speed is returned for exactly the interfaces that are in the snapshot
\* and in the store and whose upload or download rate exceeds 0.1 KB/s, once
\* each, and it carries both rates as computed, also the one below the threshold.
C23_IncludedIffEitherExceeds ==
    [][ComputesSpeeds =>
          LET dt       == rt'.now - lastNetworkRead
              Up(n)    == CounterDiff(RowOf(rt'.cur, n).BytesSent,
                                      previousNetStats.map[n].BytesSent)
              Down(n)  == CounterDiff(RowOf(rt'.cur, n).BytesRecv,
                                      previousNetStats.map[n].BytesRecv)
              Over(d)  == d * 10 > 1024 * dt
              expected == {n \in Names(rt'.cur) \cap Known : Over(Up(n)) \/ Over(Down(n))}
          IN  /\ {rt'.speeds[i].Interface : i \in 1..Len(rt'.speeds)} = expected
              /\ Len(rt'.speeds) = Cardinality(expected)
              /\ \A i \in 1..Len(rt'.speeds) :
                    rt'.speeds[i].Interface \in expected =>
                        /\ rt'.speeds[i].SentDiff = Up(rt'.speeds[i].Interface)
                        /\ rt'.speeds[i].RecvDiff = Down(rt'.speeds[i].Interface)]_vars

\* a speed was returned whose upload is above the threshold (205 bytes in a
\* second) and whose download is below it (102 bytes in a second)
C23_OneDirectionAbove ==
    /\ rt.kind = "computed"
    /\ Len(rt.speeds) = 1
    /\ rt.speeds[1].SentDiff = 205
    /\ rt.speeds[1].RecvDiff = 102
    /\ rt.speeds[1].TimeDiff = 1

\* the place of the interface n in the snapshot cur
PlaceIn(cur, n) == CHOOSE k \in 1..Len(cur) : cur[k].Name = n

\* C24: the speeds returned come in descending order of upload + download, and
\* speeds of equal total come in the order their interfaces have in the
\* snapshot.
C24_SpeedsSortedStable ==
    [][ComputesSpeeds =>
          \A i, j \in 1..Len(rt'.speeds) :
              i < j =>
                  /\ TotalSpeed(rt'.speeds[i]) >= TotalSpeed(rt'.speeds[j])
                  /\ TotalSpeed(rt'.speeds[i]) = TotalSpeed(rt'.speeds[j]) =>
                        PlaceIn(rt'.cur, rt'.speeds[i].Interface)
                            < PlaceIn(rt'.cur, rt'.speeds[j].Interface)]_vars

\* C28: when a counter of the snapshot is lower than the stored one, the
\* difference used for that direction is zero.
C28_CounterResetClampedToZero ==
    [][ComputesSpeeds =>
          \A i \in 1..Len(rt'.speeds) :
              LET speed    == rt'.speeds[i]
                  current  == RowOf(rt'.cur, speed.Interface)
                  previous == previousNetStats.map[speed.Interface]
              IN  /\ current.BytesSent < previous.BytesSent => speed.SentDiff = 0
                  /\ current.BytesRecv < previous.BytesRecv => speed.RecvDiff = 0]_vars

\* the places of the list that hold no entry of the result
LeftOut(processes, result) ==
    {i \in 1..Len(processes) : \A k \in 1..Len(result) : result[k] # processes[i]}

\* C25: getTopProcesses returns min(limit, number of processes) entries, each an
\* entry of the list and none twice, in descending order of the metric, and no
\* entry left out has a higher metric than one returned.
C25_TopIsPrefixOfSorted ==
    top.returned =>
        LET P == top.processes
            R == top.result
        IN  /\ Len(R) = IF top.limit < Len(P) THEN top.limit ELSE Len(P)
            /\ \A k \in 1..Len(R) : \E i \in 1..Len(P) : P[i] = R[k]
            /\ \A k, l \in 1..Len(R) : k # l => R[k] # R[l]
            /\ \A k \in 1..(Len(R) - 1) :
                  Metric(R[k], top.sortBy) >= Metric(R[k + 1], top.sortBy)
            /\ \A i \in LeftOut(P, R) : \A k \in 1..Len(R) :
                  Metric(P[i], top.sortBy) <= Metric(R[k], top.sortBy)

\* two of three processes were returned, by memory, and the one with the highest
\* metric was the last of the list
C25_TopTwoOfThree ==
    /\ top.returned
    /\ top.sortBy = "memory"
    /\ Len(top.processes) = 3
    /\ top.limit = 2
    /\ Len(top.result) = 2
    /\ top.processes[1].MemPercent = 0
    /\ top.processes[3].MemPercent = 50
    /\ top.result[1] = top.processes[3]

\* the place of an entry in the list
PlaceOf(processes, process) ==
    CHOOSE i \in 1..Len(processes) : processes[i] = process

\* C26: in the result of getTopProcesses, processes of equal metric come in the
\* order they have in the list.
C26_TopKeepsOrderOfTies ==
    top.returned =>
        \A k, l \in 1..Len(top.result) :
            (/\ k < l
             /\ Metric(top.result[k], top.sortBy) = Metric(top.result[l], top.sortBy)) =>
                PlaceOf(top.processes, top.result[k]) < PlaceOf(top.processes, top.result[l])

\* C27: when the poll of the active view fails during a redraw, nothing is
\* drawn over the previous rendering, the session state is unchanged and the
\* loop goes on.
C27_FailedPollKeepsScreen ==
    [][(Handled /\ out'.shown = "error") =>
          /\ out'.redraws = 0
          /\ app' = app
          /\ pc' = "select"]_vars

\* C29: the characters the loop has received are the characters read, in the
\* order read and each once, but for the one the keyboard goroutine is sending;
\* the key the loop handles is the one it received last.
C29_KeysInOrderOnce ==
    /\ Len(keyboard.received) <= Len(keyboard.read)
    /\ keyboard.received = SubSeq(keyboard.read, 1, Len(keyboard.received))
    /\ inputChan # "sending" => keyboard.received = keyboard.read
    /\ inputChan = "sending" =>
          keyboard.read = Append(keyboard.received, keyboard.char)
    /\ (pc = "handle" /\ ev \in StreamRunes) =>
          /\ Len(keyboard.received) > 0
          /\ ev = keyboard.received[Len(keyboard.received)]

\* 'p' was received and handled, then a tick was handled while the keyboard
\* goroutine was sending 'x', read after 'p'
C29_TickBetweenKeys ==
    /\ pc = "select"
    /\ ev = "tick"
    /\ app.paused
    /\ keyboard.received = <<"p">>
    /\ keyboard.read = <<"p", "x">>
    /\ keyboard.char = "x"
    /\ inputChan = "sending"

\* C30: once a signal waits in signalChan, the loop in the end runs cleanup and
\* terminates, whatever keys and ticks keep arriving and also when inputChan is
\* closed and so always ready.
C30_SignalLeadsToExit == signalChan ~> (pc = "done" /\ cleanups = 1)

\* the loop has ended on a signal while inputChan was closed and a tick waited
C30_EndedWhileOthersReady ==
    /\ pc = "done"
    /\ ev = "signal"
    /\ cleanups = 1
    /\ inputChan = "closed"
    /\ tickerC

\* C31: handling any input character while the help is visible hides the help.
C31_AnyKeyHidesHelp ==
    [][(Handled /\ ev \in KeyRunes /\ app.showHelp) => ~app'.showHelp]_vars

\* logging is on exactly when the session holds a log file
LoggingIffFile == app.logToFile <=> app.logFile # NoFile

\* C32: in every state logging is on exactly when the session holds a log
\* file; and handling 'l' or 'L' with logging off, when the file cannot be
\* opened, leaves logging off and no file held, changes no other field of the
\* session, and the loop goes on.
C32_LoggingIffFileHeld ==
    /\ []LoggingIffFile
    /\ [][(Handled /\ ev \in {"l", "L"} /\ ~app.logToFile /\ ~app'.logToFile) =>
             /\ app'.logFile = NoFile
             /\ app' = app
             /\ pc' = "select"]_vars

\* an 'L' has been handled in a paused session showing the System view, and
\* logging is still off with no file held: the log file did not open
C32_OpenFailedWhilePaused ==
    /\ pc = "select"
    /\ ev = "L"
    /\ ~app.logToFile
    /\ app.logFile = NoFile
    /\ app.paused
    /\ app.currentView = ViewSystem
    /\ out = Quiet

\* the handler completed by this step drew the Network view, help hidden, and
\* called GetNetworkSpeeds for it
RendersNetwork ==
    /\ Handled
    /\ ~app'.showHelp
    /\ app'.currentView = ViewNetwork
    /\ out'.redraws = 1
    /\ out'.shown = "view"
    /\ "speeds" \in out'.polls

\* C33: previousNetStats and lastNetworkRead change only in a step that draws
\* the Network view with the help hidden, and then lastNetworkRead becomes the
\* time of that call; every other step (a tick while paused or under the help,
\* a redraw of another view or of the help, an export, a rate key, an unknown
\* key, cleanup) leaves both as they were, so the time a rate is taken over
\* runs from the last drawing of the Network view.
C33_StoreChangesOnlyInNetworkView ==
    [][/\ store' # store =>
             /\ RendersNetwork
             /\ rt'.kind \in {"first", "computed"}
             /\ lastNetworkRead' = rt'.now
       /\ (Handled /\ ~RendersNetwork) => (UNCHANGED store /\ rt' = NoCall)
       /\ ~Handled => UNCHANGED store]_vars

\* a tick has been handled by drawing the Processes view, and the store still
\* holds what a call at time 1, for the Network view, left in it
C33_TickInOtherViewKeptStore ==
    /\ pc = "select"
    /\ ev = "tick"
    /\ out.redraws = 1
    /\ app.currentView = ViewProcesses
    /\ ~app.showHelp
    /\ ~previousNetStats.nil
    /\ lastNetworkRead = 1

\* C34: the keyboard goroutine's closing inputChan leaves the loop where it is
\* and the session as it is. From then on the channel stays closed and the
\* events the loop takes are zero runes, ticks and signals; a zero rune is
\* handled as an unknown key, changing nothing and drawing nothing, and the loop
\* goes on; a tick is handled as ever, redrawing unless paused or under the
\* help, and the loop goes on; so of the events taken after the close only a
\* signal ends the loop. (A key taken before the close is handled as that key.)
C34_ClosedInputKeepsLoop ==
    [][/\ (inputChan # "closed" /\ inputChan' = "closed") =>
             UNCHANGED <<pc, ev, app, store, ticker, cleanups, closedTwice>>
       /\ inputChan = "closed" =>
             /\ inputChan' = "closed"
             /\ (pc = "select" /\ pc' = "handle") => ev' \in {NUL, "tick", "signal"}
             /\ (Handled /\ ev = NUL) =>
                   /\ UNCHANGED <<app, store, ticker, cleanups, closedTwice>>
                   /\ out' = Quiet
                   /\ pc' = "select"
             /\ (Handled /\ ev = "tick") =>
                   /\ UNCHANGED <<app, ticker, cleanups, closedTwice>>
                   /\ out'.redraws = IF ~app.paused /\ ~app.showHelp THEN 1 ELSE 0
                   /\ pc' = "select"
             /\ (Handled /\ ev = "signal") => pc' = "done"]_vars

\* inputChan is closed, a zero rune received from it has been handled, and the
\* loop is at its select again with the session still paused and a tick waiting
C34_ZeroRuneHandled ==
    /\ inputChan = "closed"
    /\ pc = "select"
    /\ ev = NUL
    /\ app.paused
    /\ tickerC
    /\ cleanups = 0

\* C35: a name the store holds is never removed, and the entry of an interface
\* missing from a poll stays as it was; an interface that a poll finds for the
\* first time gets no speed from that poll and is stored; and every speed, also
\* that of an interface that was missing from the polls before, is the
\* difference to the counters the store has kept for it, over the time since
\* the last stored read.
C35_StoreKeepsMissingInterfaces ==
    [][/\ Known \subseteq DOMAIN previousNetStats'.map
       /\ \A n \in Known \ Names(rt'.cur) :
             n \in DOMAIN previousNetStats'.map =>
                 previousNetStats'.map[n] = previousNetStats.map[n]
       /\ ComputesSpeeds =>
             /\ \A n \in Names(rt'.cur) \ Known :
                   /\ \A i \in 1..Len(rt'.speeds) : rt'.speeds[i].Interface # n
                   /\ n \in DOMAIN previousNetStats'.map
                   /\ previousNetStats'.map[n] = RowOf(rt'.cur, n)
             /\ \A i \in 1..Len(rt'.speeds) :
                   LET speed == rt'.speeds[i]
                       n     == speed.Interface
                   IN  /\ n \in Known \cap Names(rt'.cur)
                       /\ speed.SentDiff =
                             CounterDiff(RowOf(rt'.cur, n).BytesSent,
                                         previousNetStats.map[n].BytesSent)
                       /\ speed.RecvDiff =
                             CounterDiff(RowOf(rt'.cur, n).BytesRecv,
                                         previousNetStats.map[n].BytesRecv)
                       /\ speed.TimeDiff = rt'.now - lastNetworkRead]_vars

\* a poll at time 1 found one interface, new to the store, and missed the
\* other: the store holds both, the missing one with its row of time 0
C35_MissingKeptNewAdded ==
    /\ rt.kind = "computed"
    /\ rt.now = 1
    /\ rt.speeds = <<>>
    /\ \E n, m \in Known :
          /\ n \in Names(rt.cur) \ rt.known
          /\ m \in rt.known \ Names(rt.cur)
          /\ previousNetStats.map[n].LastUpdate = 1
          /\ previousNetStats.map[m].LastUpdate = 0
          /\ previousNetStats.map[m].BytesSent = 0

====
